---- MODULE Spec2Model ----
(***************************************************************************)
(* A model of jay3332/command-handler: the Command invocation pipeline and *)
(* the Context front-end (src/commands/models.py) and the CommandSink      *)
(* registry (src/commands/core.py).                                        *)
(*                                                                         *)
(* Handlers (Command.callback) and error handlers (Command.error_callback) *)
(* are opaque coroutines: the model starts them, and later lets them       *)
(* return or raise an exception of its choice, which may be one that is    *)
(* not an Exception (a cancellation).  The pipeline is split at its await  *)
(* points (models.py:98 and models.py:102).                                *)
(*                                                                         *)
(* Optional[T] is modelled as a sequence of length 0 (None) or 1.          *)
(***************************************************************************)
EXTENDS Naturals, Sequences, FiniteSets

VARIABLES
    command,         \* Context.command, per Context        (models.py:129)
    args,            \* Context.args, per Context           (models.py:130)
    kwargs,          \* Context.kwargs, per Context         (models.py:131)
    error_callback,  \* Command.error_callback, per Command (models.py:62)
    stack,           \* per Context: the frames of the runs of Command.invoke
                     \* open on it, in the order they began
    trace,           \* per Context: what was done on it since it was last idle
    call,            \* per Context: the latest Context.invoke/reinvoke call
    core,            \* how far the program got with commands.core: not
                     \* imported yet, import failed, imported, and an
                     \* instance of one of its classes constructed
    mapping,         \* CommandSink.mapping, in insertion order (core.py:60)
    case_insensitive,\* the mapping_factory chosen at construction (core.py:59)
    registered,      \* outcome of the latest register call on the sink
    got,             \* the latest read, delete or write made on the mapping
    registrations,   \* per Command: the Command.error calls ErrorSpec recorded
    rendered         \* an exception and what to_error_string made of it

vars == <<command, args, kwargs, error_callback, stack, trace, call,
          core, mapping, case_insensitive, registered, got, registrations, rendered>>

invVars == <<command, args, kwargs, error_callback, stack, trace, call>>
sinkVars == <<core, mapping, case_insensitive, registered, got>>
auxVars == <<registrations, rendered>>

(***************************************************************************)
(* Bounds and input domains                                                *)
(***************************************************************************)
MaxArgs == 1
MaxRegistrations == 2
MaxText == 3
MaxRuns == 2

None == <<>>
Some(v) == <<v>>

Contexts == {"x1", "x2"}
MainContexts == {"x1"}
Commands == {"c1", "c2", "c3", "c4"}
InvokedCommands == {"c1", "c2"}
ErrHandlers == {"h1", "h2"}
NoHandler == "None"
Errors == {"E1", "E2"}          \* exceptions that are Exceptions
BaseErrors == {"B1"}            \* a BaseException that is not an Exception
Raisable == Errors \cup BaseErrors
NoExc == "None"

ArgVals == {1, 2}
ArgTuples == UNION {[1..n -> ArgVals] : n \in 0..MaxArgs}
KwargDicts == {{}, {<<"x", "a">>}}

(***************************************************************************)
(* Command.__init__: name and aliases of the commands (models.py:64-65)    *)
(***************************************************************************)
Name(c) ==
    CASE c = "c1" -> <<"p", "i", "n", "g">>
      [] c = "c2" -> <<"p", "o", "n", "g">>
      [] c = "c3" -> <<"P", "I", "N", "G">>
      [] c = "c4" -> <<"p">>

Aliases(c) ==
    CASE c = "c1" -> << <<"p">> >>
      [] c = "c2" -> << <<"p">>, <<"P">> >>
      [] c = "c3" -> << >>
      [] c = "c4" -> << >>

(***************************************************************************)
(* The record of what happened on a Context since it was last idle: what   *)
(* Command.invoke dispatched and called, what the callbacks did, and how   *)
(* each run was left.  inv numbers the runs of Command.invoke in it.       *)
(***************************************************************************)
CtxView(x) == [id |-> x, command |-> command[x], args |-> args[x], kwargs |-> kwargs[x]]

\* _temporary_dispatch(event, ctx[, exc]): the payload is the Context as it
\* is at the time of the dispatch.                          (models.py:31-32)
Dispatched(event, inv, view, exc) ==
    [kind |-> "dispatch", name |-> event, inv |-> inv, exc |-> exc,
     ctx |-> Some(view), pargs |-> None, pkwargs |-> None, by |-> 0]

\* await self.callback(ctx, *args, **kwargs)                    (models.py:98)
\* by is the run whose callback or error callback awaits this run, 0 when
\* the call was made from outside the runs on the Context.
CalledCallback(c, inv, view, a, k, by) ==
    [kind |-> "callback", name |-> c, inv |-> inv, exc |-> NoExc,
     ctx |-> Some(view), pargs |-> Some(a), pkwargs |-> Some(k), by |-> by]

\* await self.error_callback(ctx, exc)                         (models.py:102)
CalledErrorCallback(h, inv, view, exc) ==
    [kind |-> "error_callback", name |-> h, inv |-> inv, exc |-> exc,
     ctx |-> Some(view), pargs |-> None, pkwargs |-> None, by |-> 0]

\* What a callback did: kind is callback_returned, callback_raised,
\* error_callback_returned or error_callback_raised; for the callback, name
\* is the error_callback attached at that time.
Outcome(kind, h, inv, exc) ==
    [kind |-> kind, name |-> h, inv |-> inv, exc |-> exc,
     ctx |-> None, pargs |-> None, pkwargs |-> None, by |-> 0]

\* How Command.invoke was left: status is returned or raised
Left(status, inv, exc) ==
    [kind |-> "left", name |-> status, inv |-> inv, exc |-> exc,
     ctx |-> None, pargs |-> None, pkwargs |-> None, by |-> 0]

\* No Context.invoke or Context.reinvoke call was made yet; inv is the run
\* of Command.invoke the call began, 0 when it began none, and by the run
\* whose callback made the call, 0 when it was made from outside
NoCall == [op |-> "none", status |-> "none", exc |-> NoExc,
           cmd |-> None, args |-> None, kwargs |-> None, prior |-> None,
           inv |-> 0, by |-> 0]

\* No register call was made yet on the sink
NotRegistered == [cmd |-> None, before |-> <<>>, exc |-> NoExc]

\* Nothing was read from the mapping yet
NotGot == [op |-> "none", key |-> <<>>, default |-> "None", result |-> "None",
           exc |-> NoExc, before |-> <<>>, after |-> <<>>]

\* to_error_string was not applied
NotRendered == [exc |-> None, out |-> None]

\* The frame of a run of Command.invoke suspended in its callback; awaits is
\* the run its callback or error callback is awaiting, 0 when none
NewFrame(inv, c) == [inv |-> inv, cmd |-> c, pc |-> "callback", exc |-> NoExc, awaits |-> 0]

\* The runs open on a Context, and the frame of one of them
Open(x) == {stack[x][j].inv : j \in 1..Len(stack[x])}
Frame(x, i) == stack[x][CHOOSE j \in 1..Len(stack[x]) : stack[x][j].inv = i]

\* Run i is suspended in its callback (or error callback), which is not
\* itself awaiting another run
Suspended(x, i, pc) == i \in Open(x) /\ Frame(x, i).pc = pc /\ Frame(x, i).awaits = 0

\* Who can make a call on the Context: code outside its runs (0), or the
\* callback or error callback of a run, which then awaits the call
Callers(x) == {0} \cup {i \in Open(x) : Frame(x, i).awaits = 0}

\* The record so far, forgotten when the Context is idle
Base(x) == IF stack[x] = <<>> THEN <<>> ELSE trace[x]

\* The runs of Command.invoke begun so far in a record
Begun(tr) == Len(SelectSeq(tr, LAMBDA e : e.kind = "dispatch" /\ e.name = "command"))

\* except Exception: what the except clauses of Command.invoke catch
\*                                                      (models.py:99, 103)
IsException(exc) == exc \in Errors

(***************************************************************************)
(* Command.error (models.py:72-79)                                         *)
(***************************************************************************)
\* Mutant: a registration does not replace an error callback already attached
CommandError_FirstWins(c, func) ==
    /\ error_callback' = [error_callback EXCEPT ![c] = IF @ = NoHandler THEN func ELSE @]
    /\ UNCHANGED <<command, args, kwargs, stack, trace, call>>
    /\ UNCHANGED sinkVars
    /\ UNCHANGED rendered

CommandError(c, func) ==
    /\ error_callback' = [error_callback EXCEPT ![c] = func]
    /\ UNCHANGED <<command, args, kwargs, stack, trace, call>>
    /\ UNCHANGED sinkVars
    /\ UNCHANGED rendered

(***************************************************************************)
(* Command.invoke (models.py:81-112)                                       *)
(***************************************************************************)
\* finally: _temporary_dispatch('command_complete', ctx)     (models.py:111-112)
Finally(tr, inv, view) == Append(tr, Dispatched("command_complete", inv, view, NoExc))

\* Run i of Command.invoke is left: its frame goes, the callback that was
\* awaiting it goes on, and when the run was the one of the latest
\* Context.invoke call (models.py:153) that call ends the same way.
Leave(x, i, tr, status, exc) ==
    /\ trace' = [trace EXCEPT ![x] = Append(tr, Left(status, i, exc))]
    /\ stack' = [stack EXCEPT ![x] =
                   LET rest == SelectSeq(@, LAMBDA f : f.inv # i)
                   IN [j \in 1..Len(rest) |->
                         IF rest[j].awaits = i THEN [rest[j] EXCEPT !.awaits = 0]
                                               ELSE rest[j]]]
    /\ call' = IF call[x].inv = i /\ call[x].status = "pending"
               THEN [call EXCEPT ![x].status = status, ![x].exc = exc]
               ELSE call

\* try: _temporary_dispatch('command', ctx); await self.callback(ctx, *args, **kwargs)
\* up to the suspension of the callback                       (models.py:96-98)
CommandInvoke(c, x, a, k, view, by) ==
    LET inv == Begun(Base(x)) + 1
    IN /\ inv <= MaxRuns
       /\ trace' = [trace EXCEPT ![x] =
                      Base(x) \o <<Dispatched("command", inv, view, NoExc),
                                   CalledCallback(c, inv, view, a, k, by)>>]
       /\ stack' = [stack EXCEPT ![x] =
                      Append([j \in 1..Len(@) |->
                                IF @[j].inv = by THEN [@[j] EXCEPT !.awaits = inv] ELSE @[j]],
                             NewFrame(inv, c))]

\* Mutant: the 'command_success' dispatch is lost
AfterCallbackReturned_NoSuccess(x, i, tr) ==
    Leave(x, i, Finally(tr, i, CtxView(x)), "returned", NoExc)

\* else: _temporary_dispatch('command_success', ctx); finally
\*                                                          (models.py:109-112)
AfterCallbackReturned(x, i, tr) ==
    LET view == CtxView(x)
    IN Leave(x, i, Finally(Append(tr, Dispatched("command_success", i, view, NoExc)),
                           i, view),
             "returned", NoExc)

\* The frame of run i goes on to the error callback
ToErrorCallback(s, i, exc) ==
    [j \in 1..Len(s) |->
       IF s[j].inv = i THEN [s[j] EXCEPT !.pc = "error_callback", !.exc = exc] ELSE s[j]]

\* Mutant: 'command_error' is dispatched only inside "if self.error_callback:",
\* so a failure without an error callback is swallowed
AfterCallbackRaised_Swallowed(x, i, tr, exc) ==
    LET view == CtxView(x)
        h == error_callback[Frame(x, i).cmd]
    IN IF ~IsException(exc)
       THEN Leave(x, i, Finally(tr, i, view), "raised", exc)
       ELSE IF h # NoHandler
       THEN /\ trace' = [trace EXCEPT ![x] = Append(tr, CalledErrorCallback(h, i, view, exc))]
            /\ stack' = [stack EXCEPT ![x] = ToErrorCallback(@, i, exc)]
            /\ UNCHANGED call
       ELSE Leave(x, i, Finally(tr, i, view), "returned", NoExc)

\* Mutant: a failed callback is called again
AfterCallbackRaised_Retry(x, i, tr, exc) ==
    LET again == SelectSeq(tr, LAMBDA e : e.kind = "callback" /\ e.inv = i)[1]
    IN /\ trace' = [trace EXCEPT ![x] = Append(tr, again)]
       /\ UNCHANGED <<stack, call>>

\* The callback raised exc.  except Exception as exc: if self.error_callback:
\* await self.error_callback(ctx, exc), up to its suspension; without one,
\* _temporary_dispatch('command_error', ctx, exc); finally.  What is not an
\* Exception is not caught: finally, and it leaves Command.invoke.
\*                                              (models.py:99-102, 108, 111-112)
AfterCallbackRaised(x, i, tr, exc) ==
    LET view == CtxView(x)
        h == error_callback[Frame(x, i).cmd]
    IN IF ~IsException(exc)
       THEN Leave(x, i, Finally(tr, i, view), "raised", exc)
       ELSE IF h # NoHandler
       THEN /\ trace' = [trace EXCEPT ![x] = Append(tr, CalledErrorCallback(h, i, view, exc))]
            /\ stack' = [stack EXCEPT ![x] = ToErrorCallback(@, i, exc)]
            /\ UNCHANGED call
       ELSE Leave(x, i, Finally(Append(tr, Dispatched("command_error", i, view, exc)),
                                i, view),
                  "returned", NoExc)

\* Mutant: 'command_complete' is dispatched after the try statement instead
\* of in its finally clause, so the early return skips it
AfterErrorCallbackReturned_NoFinally(x, i, tr) ==
    Leave(x, i, tr, "returned", NoExc)

\* Mutant: the "else: return" is missing, so a recovered failure still
\* reaches the 'command_error' dispatch
AfterErrorCallbackReturned_FallsThrough(x, i, tr) ==
    LET view == CtxView(x)
    IN Leave(x, i, Finally(Append(tr, Dispatched("command_error", i, view, Frame(x, i).exc)),
                           i, view),
             "returned", NoExc)

\* else: return; finally                        (models.py:105-106, 111-112)
AfterErrorCallbackReturned(x, i, tr) ==
    Leave(x, i, Finally(tr, i, CtxView(x)), "returned", NoExc)

\* Mutant: the error callback is awaited outside a try, so its failure
\* leaves Command.invoke (after the finally clause)
AfterErrorCallbackRaised_Escapes(x, i, tr, new_exc) ==
    Leave(x, i, Finally(tr, i, CtxView(x)), "raised", new_exc)

\* Mutant: "exc = new_exc" is missing, the original error is dispatched
AfterErrorCallbackRaised_OriginalExc(x, i, tr, new_exc) ==
    LET view == CtxView(x)
        exc == Frame(x, i).exc
    IN IF ~IsException(new_exc)
       THEN Leave(x, i, Finally(tr, i, view), "raised", new_exc)
       ELSE Leave(x, i, Finally(Append(tr, Dispatched("command_error", i, view, exc)),
                                i, view),
                  "returned", NoExc)

\* The error callback raised new_exc.  except Exception as new_exc:
\* exc = new_exc; then _temporary_dispatch('command_error', ctx, exc);
\* finally.  What is not an Exception is not caught: finally, and it leaves
\* Command.invoke.                         (models.py:103-104, 108, 111-112)
AfterErrorCallbackRaised(x, i, tr, new_exc) ==
    LET view == CtxView(x)
        exc == new_exc
    IN IF ~IsException(new_exc)
       THEN Leave(x, i, Finally(tr, i, view), "raised", new_exc)
       ELSE Leave(x, i, Finally(Append(tr, Dispatched("command_error", i, view, exc)),
                                i, view),
                  "returned", NoExc)

\* The callback of run i on x returns
CallbackReturns(x, i) ==
    /\ Suspended(x, i, "callback")
    /\ AfterCallbackReturned(x, i,
          Append(trace[x], Outcome("callback_returned", error_callback[Frame(x, i).cmd],
                                   i, NoExc)))
    /\ UNCHANGED <<command, args, kwargs, error_callback>>
    /\ UNCHANGED sinkVars
    /\ UNCHANGED auxVars

\* The callback of run i on x raises exc (also: it is cancelled while
\* suspended, and the await raises the cancellation)
CallbackRaises(x, i, exc) ==
    /\ Suspended(x, i, "callback")
    /\ AfterCallbackRaised(x, i,
          Append(trace[x], Outcome("callback_raised", error_callback[Frame(x, i).cmd],
                                   i, exc)),
          exc)
    /\ UNCHANGED <<command, args, kwargs, error_callback>>
    /\ UNCHANGED sinkVars
    /\ UNCHANGED auxVars

\* The error callback of run i on x returns
ErrorCallbackReturns(x, i) ==
    /\ Suspended(x, i, "error_callback")
    /\ AfterErrorCallbackReturned(x, i,
          Append(trace[x], Outcome("error_callback_returned", NoHandler, i, NoExc)))
    /\ UNCHANGED <<command, args, kwargs, error_callback>>
    /\ UNCHANGED sinkVars
    /\ UNCHANGED auxVars

\* The error callback of run i on x raises new_exc
ErrorCallbackRaises(x, i, new_exc) ==
    /\ Suspended(x, i, "error_callback")
    /\ AfterErrorCallbackRaised(x, i,
          Append(trace[x], Outcome("error_callback_raised", NoHandler, i, new_exc)),
          new_exc)
    /\ UNCHANGED <<command, args, kwargs, error_callback>>
    /\ UNCHANGED sinkVars
    /\ UNCHANGED auxVars

\* Command.invoke(ctx, *args, **kwargs) called on its own, not through
\* Context.invoke: nothing is stored on the Context.  When the record of the
\* Context starts afresh, the latest Context call no longer has a run in it.
\*                                                           (models.py:81-98)
DirectInvoke(x, by, c, a, k) ==
    /\ by \in Callers(x)
    /\ CommandInvoke(c, x, a, k, CtxView(x), by)
    /\ call' = IF stack[x] = <<>> THEN [call EXCEPT ![x].inv = 0] ELSE call
    /\ UNCHANGED <<command, args, kwargs, error_callback>>
    /\ UNCHANGED sinkVars
    /\ UNCHANGED auxVars

(***************************************************************************)
(* Context (models.py:115-162)                                             *)
(***************************************************************************)
\* The record of a Context.invoke call that got to Command.invoke
Invoking(x, by, c, a, k) ==
    [op |-> "invoke", status |-> "pending", exc |-> NoExc,
     cmd |-> Some(c), args |-> Some(a), kwargs |-> Some(k), prior |-> None,
     inv |-> Begun(Base(x)) + 1, by |-> by]

\* The record of a Context.reinvoke call that got to Command.invoke; prior is
\* what the call before it was made with, and by whom
Reinvoking(x, by, k) ==
    [op |-> "reinvoke", status |-> "pending", exc |-> NoExc,
     cmd |-> command[x], args |-> args[x], kwargs |-> k,
     prior |-> Some([cmd |-> call[x].cmd, args |-> call[x].args,
                     kwargs |-> call[x].kwargs, by |-> call[x].by]),
     inv |-> Begun(Base(x)) + 1, by |-> by]

\* The record of a Context.reinvoke call that raised before Command.invoke
Failed(by, exc, a, k) ==
    [op |-> "reinvoke", status |-> "raised", exc |-> exc,
     cmd |-> None, args |-> a, kwargs |-> k, prior |-> None, inv |-> 0, by |-> by]

\* Mutant: only the command is stored on the Context
ContextInvoke_ArgsNotStored(x, by, c, a, k) ==
    /\ command' = [command EXCEPT ![x] = Some(c)]
    /\ UNCHANGED <<args, kwargs>>
    /\ CommandInvoke(c, x, a, k,
                     [id |-> x, command |-> Some(c), args |-> args[x], kwargs |-> kwargs[x]],
                     by)

\* Mutant: command, args and kwargs are attributes shared by all Contexts
ContextInvoke_SharedFields(x, by, c, a, k) ==
    /\ command' = [y \in Contexts |-> Some(c)]
    /\ args' = [y \in Contexts |-> Some(a)]
    /\ kwargs' = [y \in Contexts |-> Some(k)]
    /\ CommandInvoke(c, x, a, k,
                     [id |-> x, command |-> Some(c), args |-> Some(a), kwargs |-> Some(k)],
                     by)

\* Mutant: the pipeline is given the Context before the three fields are
\* assigned
ContextInvoke_DispatchFirst(x, by, c, a, k) ==
    /\ command' = [command EXCEPT ![x] = Some(c)]
    /\ args' = [args EXCEPT ![x] = Some(a)]
    /\ kwargs' = [kwargs EXCEPT ![x] = Some(k)]
    /\ CommandInvoke(c, x, a, k, CtxView(x), by)

\* Mutant: an invoke made while a run is open on the Context leaves the
\* fields of the earlier call in place
ContextInvoke_KeepsOuter(x, by, c, a, k) ==
    IF stack[x] # <<>>
    THEN /\ UNCHANGED <<command, args, kwargs>>
         /\ CommandInvoke(c, x, a, k, CtxView(x), by)
    ELSE /\ command' = [command EXCEPT ![x] = Some(c)]
         /\ args' = [args EXCEPT ![x] = Some(a)]
         /\ kwargs' = [kwargs EXCEPT ![x] = Some(k)]
         /\ CommandInvoke(c, x, a, k,
                          [id |-> x, command |-> Some(c), args |-> Some(a), kwargs |-> Some(k)],
                          by)

\* Context.invoke: self.command = command; self.args = args;
\* self.kwargs = kwargs; await command.invoke(self, *args, **kwargs)
\*                                                          (models.py:149-153)
ContextInvoke(x, by, c, a, k) ==
    /\ command' = [command EXCEPT ![x] = Some(c)]
    /\ args' = [args EXCEPT ![x] = Some(a)]
    /\ kwargs' = [kwargs EXCEPT ![x] = Some(k)]
    /\ CommandInvoke(c, x, a, k,
                     [id |-> x, command |-> Some(c), args |-> Some(a), kwargs |-> Some(k)],
                     by)

\* A call ctx.invoke(command, *args, **kwargs) made by the caller by: there is
\* no condition on the Context, which may have runs open.
Invoke(x, by, c, a, k) ==
    /\ by \in Callers(x)
    /\ ContextInvoke(x, by, c, a, k)
    /\ call' = [call EXCEPT ![x] = Invoking(x, by, c, a, k)]
    /\ UNCHANGED error_callback
    /\ UNCHANGED sinkVars
    /\ UNCHANGED auxVars

\* Mutant: the keyword arguments are not passed on,
\* await self.invoke(self.command, *self.args)
ContextReinvoke_DropsKwargs(x, by) ==
    IF args[x] = None \/ kwargs[x] = None \/ command[x] = None
    THEN /\ call' = [call EXCEPT ![x] = Failed(by, "TypeError", None, None)]
         /\ UNCHANGED <<command, args, kwargs, stack, trace>>
    ELSE /\ ContextInvoke(x, by, command[x][1], args[x][1], {})
         /\ call' = [call EXCEPT ![x] = Reinvoking(x, by, Some({}))]

\* Mutant: reinvoke returns at once when nothing was invoked yet,
\* "if self.command is None: return"
ContextReinvoke_NoOp(x, by) ==
    IF command[x] = None
    THEN /\ call' = [call EXCEPT ![x] =
                       [Failed(by, NoExc, None, None) EXCEPT !.status = "returned"]]
         /\ UNCHANGED <<command, args, kwargs, stack, trace>>
    ELSE /\ ContextInvoke(x, by, command[x][1], args[x][1], kwargs[x][1])
         /\ call' = [call EXCEPT ![x] = Reinvoking(x, by, kwargs[x])]

\* Context.reinvoke: await self.invoke(self.command, *self.args, **self.kwargs)
\* Unpacking *None raises TypeError before self.invoke is called.
\*                                                          (models.py:155-162)
ContextReinvoke(x, by) ==
    IF args[x] = None \/ kwargs[x] = None
    THEN /\ call' = [call EXCEPT ![x] = Failed(by, "TypeError", None, None)]
         /\ UNCHANGED <<command, args, kwargs, stack, trace>>
    ELSE IF command[x] = None
    THEN \* self.invoke(None, ...): the fields are stored again, then
         \* None.invoke raises AttributeError               (models.py:149-153)
         /\ call' = [call EXCEPT ![x] = Failed(by, "AttributeError", args[x], kwargs[x])]
         /\ UNCHANGED <<command, args, kwargs, stack, trace>>
    ELSE /\ ContextInvoke(x, by, command[x][1], args[x][1], kwargs[x][1])
         /\ call' = [call EXCEPT ![x] = Reinvoking(x, by, kwargs[x])]

\* A call ctx.reinvoke() made by the caller by: there is no condition on
\* the Context, which may have runs open.
Reinvoke(x, by) ==
    /\ by \in Callers(x)
    /\ ContextReinvoke(x, by)
    /\ UNCHANGED error_callback
    /\ UNCHANGED sinkVars
    /\ UNCHANGED auxVars

(***************************************************************************)
(* The invocation pipeline as a system.  In Spec one Context, x1, is used  *)
(* for one call at a time, each made when the one before is over: through  *)
(* Context.invoke, Context.reinvoke or Command.invoke itself.  SharedSpec  *)
(* and NestedSpec, further down, make calls while runs are open.           *)
(***************************************************************************)
InitContext ==
    /\ command = [x \in Contexts |-> None]
    /\ args = [x \in Contexts |-> None]
    /\ kwargs = [x \in Contexts |-> None]

InitInvocation ==
    /\ InitContext
    /\ error_callback = [c \in Commands |-> NoHandler]
    /\ stack = [x \in Contexts |-> <<>>]
    /\ trace = [x \in Contexts |-> <<>>]
    /\ call = [x \in Contexts |-> NoCall]
    /\ registrations = [c \in Commands |-> <<>>]

Init ==
    /\ InitInvocation
    /\ core = "unloaded"
    /\ mapping = <<>>
    /\ case_insensitive = FALSE
    /\ registered = NotRegistered
    /\ got = NotGot
    /\ rendered = NotRendered

Next ==
    \/ \E c \in InvokedCommands, func \in ErrHandlers :
          CommandError(c, func) /\ UNCHANGED registrations
    \/ \E x \in MainContexts, c \in InvokedCommands, a \in ArgTuples, k \in KwargDicts :
          stack[x] = <<>> /\ Invoke(x, 0, c, a, k)
    \/ \E x \in MainContexts : stack[x] = <<>> /\ Reinvoke(x, 0)
    \/ \E x \in MainContexts, c \in InvokedCommands :
          stack[x] = <<>> /\ DirectInvoke(x, 0, c, <<2>>, {})
    \/ \E x \in MainContexts, i \in 1..MaxRuns : CallbackReturns(x, i)
    \/ \E x \in MainContexts, i \in 1..MaxRuns, exc \in Raisable : CallbackRaises(x, i, exc)
    \/ \E x \in MainContexts, i \in 1..MaxRuns : ErrorCallbackReturns(x, i)
    \/ \E x \in MainContexts, i \in 1..MaxRuns, new_exc \in Raisable :
          ErrorCallbackRaises(x, i, new_exc)

Spec == Init /\ [][Next]_vars

(***************************************************************************)
(* import commands.core (core.py:1-117)                                    *)
(***************************************************************************)
\* The module body runs "class CaseInsensitiveDict(Dict[K, V])" (core.py:23).
\* core.py neither defines nor imports K and V, so the class statement
\* raises NameError and none of CaseInsensitiveDict, CommandSink and Bot
\* comes to exist, unless the importing program has put the two names where
\* the lookup ends, in builtins (typevars).  A failed import may be tried
\* again.
ImportCore(typevars) ==
    /\ core \in {"unloaded", "NameError"}
    /\ core' = IF typevars THEN "loaded" ELSE "NameError"
    /\ UNCHANGED <<mapping, case_insensitive, registered, got>>
    /\ UNCHANGED invVars
    /\ UNCHANGED auxVars

(***************************************************************************)
(* CaseInsensitiveDict and dict (core.py:23-45)                            *)
(*                                                                         *)
(* A mapping is the sequence of its <<key, value>> items in insertion      *)
(* order; a key is a sequence of characters.                               *)
(***************************************************************************)
FoldChar(ch) ==
    CASE ch = "P" -> "p"
      [] ch = "I" -> "i"
      [] ch = "N" -> "n"
      [] ch = "G" -> "g"
      [] ch = "O" -> "o"
      [] OTHER -> ch

\* str.casefold, on the characters the command names are made of
casefold(key) == [i \in 1..Len(key) |-> FoldChar(key[i])]

Keys(m) == {m[i][1] : i \in 1..Len(m)}

\* dict.__setitem__: a new key is added last, a present key keeps its place
DictSetItem(m, key, value) ==
    IF key \in Keys(m)
    THEN [i \in 1..Len(m) |-> IF m[i][1] = key THEN <<key, value>> ELSE m[i]]
    ELSE Append(m, <<key, value>>)

\* CaseInsensitiveDict.__setitem__: super().__setitem__(key.casefold(), v)
\* names v, which is not defined: NameError, nothing is stored (core.py:29-30)
CaseInsensitiveSetItem(m, key, value) ==
    [mapping |-> m, exc |-> "NameError"]

\* self.mapping[key] = value, with the mapping_factory of the sink (core.py:59-60)
SetItem(m, ci, key, value) ==
    IF ci THEN CaseInsensitiveSetItem(m, key, value)
          ELSE [mapping |-> DictSetItem(m, key, value), exc |-> NoExc]

\* The value stored under a present key
ValueAt(m, key) == m[CHOOSE i \in 1..Len(m) : m[i][1] = key][2]

\* The mapping without a key
Without(m, key) == SelectSeq(m, LAMBDA item : item[1] # key)

\* dict.get(key, default)
DictGet(m, key, default) == IF key \in Keys(m) THEN ValueAt(m, key) ELSE default

\* CaseInsensitiveDict.get: super().get(key.casefold(), default)  (core.py:38-39)
CaseInsensitiveGet(m, key, default) == DictGet(m, casefold(key), default)

\* CaseInsensitiveDict.__getitem__: super().__getitem__(key.casefold())
\*                                                             (core.py:26-27)
CaseInsensitiveGetItem(m, key) ==
    IF casefold(key) \in Keys(m)
    THEN [result |-> ValueAt(m, casefold(key)), exc |-> NoExc, mapping |-> m]
    ELSE [result |-> "None", exc |-> "KeyError", mapping |-> m]

\* CaseInsensitiveDict.__delitem__: super().__delitem__(key.casefold())
\*                                                             (core.py:32-33)
CaseInsensitiveDelItem(m, key) ==
    IF casefold(key) \in Keys(m)
    THEN [result |-> "None", exc |-> NoExc, mapping |-> Without(m, casefold(key))]
    ELSE [result |-> "None", exc |-> "KeyError", mapping |-> m]

\* CaseInsensitiveDict.__contains__: super().__contains__(key.casefold())
\*                                                             (core.py:35-36)
CaseInsensitiveContains(m, key) ==
    [result |-> IF casefold(key) \in Keys(m) THEN "True" ELSE "False",
     exc |-> NoExc, mapping |-> m]

\* CaseInsensitiveDict.pop: super().pop(key.casefold(), default) (core.py:41-42)
CaseInsensitivePop(m, key, default) ==
    [result |-> DictGet(m, casefold(key), default), exc |-> NoExc,
     mapping |-> Without(m, casefold(key))]

(***************************************************************************)
(* CommandSink (core.py:48-98)                                             *)
(***************************************************************************)
\* walk_commands: the values in iteration order, each identity once (core.py:70-74)
\* Mutant: no set of the commands already yielded is kept
Walk_NoSeen(m, i, seen) ==
    IF i > Len(m) THEN <<>> ELSE [j \in 1..(Len(m) - i + 1) |-> m[i + j - 1][2]]

RECURSIVE Walk(_, _, _)
Walk(m, i, seen) ==
    IF i > Len(m) THEN <<>>
    ELSE IF m[i][2] \notin seen
         THEN <<m[i][2]>> \o Walk(m, i + 1, seen \cup {m[i][2]})
         ELSE Walk(m, i + 1, seen)

walk_commands(m) == Walk(m, 1, {})

\* Mutant: the lookup is made with pop, which takes the key out of the mapping
get_command_Pops(m, ci, name, default) ==
    [result |-> IF ci THEN CaseInsensitiveGet(m, name, default) ELSE DictGet(m, name, default),
     exc |-> NoExc,
     mapping |-> Without(m, IF ci THEN casefold(name) ELSE name)]

\* get_command: return self.mapping.get(name, default)           (core.py:93)
get_command(m, ci, name, default) ==
    [result |-> IF ci THEN CaseInsensitiveGet(m, name, default) ELSE DictGet(m, name, default),
     exc |-> NoExc,
     mapping |-> m]

\* commands: list(self.walk_commands())                          (core.py:98)
commands(m) == walk_commands(m)

\* The names looked up, and the defaults given
LookupNames == {<<"p", "i", "n", "g">>, <<"P", "I", "N", "G">>, <<"P", "i", "n", "g">>,
                <<"p">>, <<"P">>, <<"o">>}
Defaults == {"None", "dflt"}

\* A call sink.get_command(name, default)
GetCommand(name, default) ==
    LET r == get_command(mapping, case_insensitive, name, default)
    IN /\ core = "constructed"
       /\ mapping' = r.mapping
       /\ got' = [op |-> "get_command", key |-> name, default |-> default,
                  result |-> r.result, exc |-> r.exc,
                  before |-> mapping, after |-> r.mapping]
       /\ UNCHANGED <<core, case_insensitive, registered>>
       /\ UNCHANGED invVars
       /\ UNCHANGED auxVars

\* register(command): the mapping is assigned under the name, then under each
\* alias in order; an assignment that raises ends the registration.
RegisterKeys(c) == <<Name(c)>> \o Aliases(c)

RECURSIVE RegisterFrom(_, _, _, _)
RegisterFrom(m, ci, c, i) ==
    IF i > Len(RegisterKeys(c)) THEN [mapping |-> m, exc |-> NoExc]
    ELSE LET r == SetItem(m, ci, RegisterKeys(c)[i], c)
         IN IF r.exc # NoExc THEN r ELSE RegisterFrom(r.mapping, ci, c, i + 1)

Register(c) ==
    LET r == RegisterFrom(mapping, case_insensitive, c, 1)
    IN /\ core = "constructed"
       /\ mapping' = r.mapping
       /\ registered' = [cmd |-> Some(c), before |-> mapping, exc |-> r.exc]
       /\ UNCHANGED <<core, case_insensitive, got>>
       /\ UNCHANGED invVars
       /\ UNCHANGED auxVars

\* CommandSink.__init__(case_insensitive=...): self.mapping =
\* mapping_factory(), once the class exists                    (core.py:58-60)
SinkInit(ci) ==
    /\ core = "loaded"
    /\ core' = "constructed"
    /\ case_insensitive' = ci
    /\ mapping' = <<>>
    /\ UNCHANGED <<registered, got>>
    /\ UNCHANGED invVars
    /\ UNCHANGED auxVars

\* Before the import of commands.core: there is no sink yet
InitSink ==
    /\ InitInvocation
    /\ core = "unloaded"
    /\ mapping = <<>>
    /\ case_insensitive = FALSE
    /\ registered = NotRegistered
    /\ got = NotGot
    /\ rendered = NotRendered

NextSink ==
    \/ \E typevars \in BOOLEAN : ImportCore(typevars)
    \/ \E ci \in BOOLEAN : SinkInit(ci)
    \/ \E c \in Commands : Register(c)
    \/ \E name \in LookupNames, default \in Defaults : GetCommand(name, default)

SinkSpec == InitSink /\ [][NextSink]_vars

(***************************************************************************)
(* Reading the record of a call                                            *)
(***************************************************************************)
Runs(x) == 1..Begun(trace[x])
Of(tr, i) == SelectSeq(tr, LAMBDA e : e.inv = i)
Kind(tr, i, kind) == SelectSeq(tr, LAMBDA e : e.inv = i /\ e.kind = kind)
Event(tr, i, event) ==
    SelectSeq(tr, LAMBDA e : e.inv = i /\ e.kind = "dispatch" /\ e.name = event)
Events(tr, i) ==
    LET d == Kind(tr, i, "dispatch") IN [j \in 1..Len(d) |-> d[j].name]
Finished(tr, i) == Kind(tr, i, "left") # <<>>

\* Where in a record run i has its entries, the first and the last of them,
\* and its callback call
Places(tr, i) == {j \in 1..Len(tr) : tr[j].inv = i}
FirstOf(tr, i) == CHOOSE j \in Places(tr, i) : \A l \in Places(tr, i) : j <= l
LastOf(tr, i) == CHOOSE j \in Places(tr, i) : \A l \in Places(tr, i) : l <= j
CallOf(tr, i) == CHOOSE j \in Places(tr, i) : tr[j].kind = "callback"

\* What the callback and the error callback of run i raised
Failures(tr, i) ==
    {tr[j].exc : j \in {l \in 1..Len(tr) :
                          /\ tr[l].inv = i
                          /\ tr[l].kind \in {"callback_raised", "error_callback_raised"}}}

Succeeded == <<"command", "command_success", "command_complete">>
Errored == <<"command", "command_error", "command_complete">>
Recovered == <<"command", "command_complete">>

(***************************************************************************)
(* Claims about Command.invoke                                             *)
(***************************************************************************)
\* C1: in every run of Command.invoke, 'command' is dispatched first and
\* once; while the callbacks run nothing else has been dispatched; and once
\* the run is left the events are 'command', then at most one of
\* 'command_success' and 'command_error', then 'command_complete' once, as
\* the last thing the run does.
C1_EventOrdering ==
    \A x \in Contexts : \A i \in Runs(x) :
        LET run == Of(trace[x], i)
            ev == Events(trace[x], i)
        IN /\ run[1].kind = "dispatch" /\ run[1].name = "command"
           /\ IF Finished(trace[x], i)
              THEN /\ ev \in {Succeeded, Errored, Recovered}
                   /\ run[Len(run)].kind = "left"
                   /\ run[Len(run) - 1].kind = "dispatch"
                   /\ run[Len(run) - 1].name = "command_complete"
              ELSE ev = <<"command">>

\* C1 witness: a run was left on the branch where the error callback itself
\* failed, with its three events dispatched; a second run on the same Context
\* had begun while it was open, and was left before it.
C1_Witness ==
    \E x \in Contexts :
        /\ stack[x] = <<>>
        /\ Begun(trace[x]) = 2
        /\ Kind(trace[x], 1, "error_callback_raised") # <<>>
        /\ Events(trace[x], 1) = Errored
        /\ Events(trace[x], 2) = Succeeded
        /\ LastOf(trace[x], 2) < LastOf(trace[x], 1)

\* C1 witness: a run that was cancelled in its callback was left with
\* 'command_complete' dispatched last.
C1_CancelledWitness ==
    \E x \in Contexts :
        /\ Finished(trace[x], 1)
        /\ Kind(trace[x], 1, "left")[1].name = "raised"
        /\ Events(trace[x], 1) = Recovered

\* C2, as stated: a run of Command.invoke in which the callback raised, or
\* the error callback raised, whatever they raised, is left by returning,
\* never by raising, and the failure went to the error callback or to
\* 'command_error'; the Context.invoke call around it returns too.
C2_NoEscape ==
    \A x \in Contexts : \A i \in Runs(x) :
        (Finished(trace[x], i) /\ Kind(trace[x], i, "callback_raised") # <<>>)
        => /\ Kind(trace[x], i, "left")[1].name = "returned"
           /\ Kind(trace[x], i, "left")[1].exc = NoExc
           /\ \/ Kind(trace[x], i, "error_callback") # <<>>
              \/ Event(trace[x], i, "command_error") # <<>>
           /\ Kind(trace[x], i, "error_callback_raised") # <<>>
              => Event(trace[x], i, "command_error") # <<>>
           /\ call[x].inv = i
              => (call[x].status = "returned" /\ call[x].exc = NoExc)

\* C2, amended: a run of Command.invoke in which the callback raised an
\* Exception, or the error callback raised one, is left by returning, never
\* by raising, and the failure went to the error callback or to
\* 'command_error'; the Context.invoke call around it returns too.  When the
\* callback or the error callback raised what is not an Exception, the run
\* is left by raising that very exception, after 'command_complete' and
\* without a 'command_error' for it, and so is the Context.invoke call
\* around it.
C2_ExceptionsNoEscape ==
    \A x \in Contexts : \A i \in Runs(x) :
        (Finished(trace[x], i) /\ Kind(trace[x], i, "callback_raised") # <<>>)
        => LET left == Kind(trace[x], i, "left")[1]
               run == Of(trace[x], i)
           IN IF \A exc \in Failures(trace[x], i) : IsException(exc)
              THEN /\ left.name = "returned"
                   /\ left.exc = NoExc
                   /\ \/ Kind(trace[x], i, "error_callback") # <<>>
                      \/ Event(trace[x], i, "command_error") # <<>>
                   /\ Kind(trace[x], i, "error_callback_raised") # <<>>
                      => Event(trace[x], i, "command_error") # <<>>
                   /\ call[x].inv = i
                      => (call[x].status = "returned" /\ call[x].exc = NoExc)
              ELSE /\ left.name = "raised"
                   /\ ~IsException(left.exc)
                   /\ run[Len(run) - 2].kind \in {"callback_raised", "error_callback_raised"}
                   /\ run[Len(run) - 2].exc = left.exc
                   /\ run[Len(run) - 1].name = "command_complete"
                   /\ Event(trace[x], i, "command_error") = <<>>
                   /\ call[x].inv = i
                      => (call[x].status = "raised" /\ call[x].exc = left.exc)

\* C2 witness: a call whose callback and error callback both raised an
\* Exception has returned.
C2_Witness ==
    \E x \in Contexts :
        /\ stack[x] = <<>>
        /\ Kind(trace[x], 1, "callback_raised") # <<>>
        /\ Kind(trace[x], 1, "error_callback_raised") # <<>>
        /\ call[x].inv = 1
        /\ call[x].status = "returned"

\* C2 witness: a call whose callback raised an Exception and whose error
\* callback raised what is not one was left by raising it.
C2_EscapedWitness ==
    \E x \in Contexts :
        /\ stack[x] = <<>>
        /\ Kind(trace[x], 1, "error_callback_raised") # <<>>
        /\ Kind(trace[x], 1, "error_callback_raised")[1].exc \in BaseErrors
        /\ call[x].inv = 1
        /\ call[x].status = "raised"

\* C3: when the callback raised an error E1 and the error callback raised a
\* different error E2 (errors being Exceptions), the events are
\* [command, command_error, command_complete] and command_error carries E2.
C3_ErrorCallbackFailure ==
    \A x \in Contexts : \A i \in Runs(x) :
        (/\ Finished(trace[x], i)
         /\ Kind(trace[x], i, "callback_raised") # <<>>
         /\ Kind(trace[x], i, "error_callback_raised") # <<>>
         /\ \A exc \in Failures(trace[x], i) : IsException(exc)
         /\ Kind(trace[x], i, "callback_raised")[1].exc
              # Kind(trace[x], i, "error_callback_raised")[1].exc)
        => /\ Events(trace[x], i) = Errored
           /\ Event(trace[x], i, "command_error")[1].exc
                = Kind(trace[x], i, "error_callback_raised")[1].exc
           /\ Event(trace[x], i, "command_error")[1].exc
                # Kind(trace[x], i, "callback_raised")[1].exc

\* C3 witness: a run was left after the callback raised E1 and the error
\* callback raised E2.
C3_Witness ==
    \E x \in Contexts :
        /\ Finished(trace[x], 1)
        /\ Kind(trace[x], 1, "callback_raised") # <<>>
        /\ Kind(trace[x], 1, "callback_raised")[1].exc = "E1"
        /\ Kind(trace[x], 1, "error_callback_raised") # <<>>
        /\ Kind(trace[x], 1, "error_callback_raised")[1].exc = "E2"

\* C4: when the callback raised and the attached error callback returned,
\* the events are [command, command_complete], and the error callback was
\* called once, with this Context and the callback's error.
C4_Recovered ==
    \A x \in Contexts : \A i \in Runs(x) :
        (/\ Finished(trace[x], i)
         /\ Kind(trace[x], i, "callback_raised") # <<>>
         /\ Kind(trace[x], i, "error_callback_returned") # <<>>)
        => /\ Events(trace[x], i) = Recovered
           /\ Len(Kind(trace[x], i, "error_callback")) = 1
           /\ Kind(trace[x], i, "error_callback")[1].exc
                = Kind(trace[x], i, "callback_raised")[1].exc
           /\ Kind(trace[x], i, "error_callback")[1].ctx # None
           /\ Kind(trace[x], i, "error_callback")[1].ctx[1].id = x
           /\ Kind(trace[x], i, "error_callback")[1].name
                = Kind(trace[x], i, "callback_raised")[1].name

\* C4 witness: a run was left after its error callback returned.
C4_Witness ==
    \E x \in Contexts :
        /\ Finished(trace[x], 1)
        /\ Kind(trace[x], 1, "callback_raised") # <<>>
        /\ Kind(trace[x], 1, "error_callback_returned") # <<>>

\* C5: when the callback raised an error E (an Exception) and no error
\* callback was attached, the events are [command, command_error,
\* command_complete] and command_error carries this Context and E.
C5_Unhandled ==
    \A x \in Contexts : \A i \in Runs(x) :
        (/\ Finished(trace[x], i)
         /\ Kind(trace[x], i, "callback_raised") # <<>>
         /\ IsException(Kind(trace[x], i, "callback_raised")[1].exc)
         /\ Kind(trace[x], i, "callback_raised")[1].name = NoHandler)
        => /\ Events(trace[x], i) = Errored
           /\ Event(trace[x], i, "command_error")[1].exc
                = Kind(trace[x], i, "callback_raised")[1].exc
           /\ Event(trace[x], i, "command_error")[1].ctx # None
           /\ Event(trace[x], i, "command_error")[1].ctx[1].id = x
           /\ Kind(trace[x], i, "error_callback") = <<>>

\* C5 witness: a run was left after its callback raised with no error
\* callback attached.
C5_Witness ==
    \E x \in Contexts :
        /\ Finished(trace[x], 1)
        /\ Kind(trace[x], 1, "callback_raised") # <<>>
        /\ Kind(trace[x], 1, "callback_raised")[1].name = NoHandler
        /\ Kind(trace[x], 1, "callback_raised")[1].exc = "E2"

\* C6: when the callback returned, the events are [command,
\* command_success, command_complete], and no error callback was called,
\* attached or not.
C6_Success ==
    \A x \in Contexts : \A i \in Runs(x) :
        (Finished(trace[x], i) /\ Kind(trace[x], i, "callback_returned") # <<>>)
        => /\ Events(trace[x], i) = Succeeded
           /\ Event(trace[x], i, "command_error") = <<>>
           /\ Kind(trace[x], i, "error_callback") = <<>>

\* C6 witness: a run was left after its callback returned while an error
\* callback was attached.
C6_Witness ==
    \E x \in Contexts :
        /\ Finished(trace[x], 1)
        /\ Kind(trace[x], 1, "callback_returned") # <<>>
        /\ Kind(trace[x], 1, "callback_returned")[1].name # NoHandler

\* C7: in a run of Command.invoke the callback is called exactly once and
\* the error callback at most once, and only after the callback raised; a
\* failure (an Exception the callback raised) is reported through one error
\* callback call and/or one 'command_error' dispatch, at least one of the
\* two once the run is left.
C7_NoRetry ==
    \A x \in Contexts : \A i \in Runs(x) :
        /\ Len(Kind(trace[x], i, "callback")) = 1
        /\ Len(Kind(trace[x], i, "callback_raised"))
             + Len(Kind(trace[x], i, "callback_returned")) <= 1
        /\ Len(Kind(trace[x], i, "error_callback")) <= 1
        /\ Len(Event(trace[x], i, "command_error")) <= 1
        /\ Kind(trace[x], i, "error_callback") # <<>>
           => Kind(trace[x], i, "callback_raised") # <<>>
        /\ (/\ Finished(trace[x], i)
            /\ Kind(trace[x], i, "callback_raised") # <<>>
            /\ IsException(Kind(trace[x], i, "callback_raised")[1].exc))
           => Len(Kind(trace[x], i, "error_callback"))
                + Len(Event(trace[x], i, "command_error")) >= 1
        /\ Kind(trace[x], i, "callback_raised") = <<>>
           => Len(Kind(trace[x], i, "error_callback"))
                + Len(Event(trace[x], i, "command_error")) = 0

\* C7 witness: a run was left after its callback raised and its error
\* callback was called.
C7_Witness ==
    \E x \in Contexts :
        /\ Finished(trace[x], 1)
        /\ Kind(trace[x], 1, "callback_raised") # <<>>
        /\ Len(Kind(trace[x], 1, "error_callback")) = 1
        /\ Len(Kind(trace[x], 1, "callback")) = 1

(***************************************************************************)
(* Claims about Context                                                    *)
(***************************************************************************)
\* C8: a reinvoke that follows an invoke (or reinvoke) with command cmd,
\* positional arguments a and keyword arguments k does what invoke(cmd, a, k)
\* does: it dispatches 'command' with the same Context contents and calls the
\* callback of cmd with a and k, the Context still stores cmd, a and k, and
\* once the run is left it went through a full lifecycle.
C8_ReinvokeReplays ==
    \A x \in Contexts :
        (call[x].op = "reinvoke" /\ call[x].inv # 0)
        => /\ call[x].prior # None
           /\ LET p == call[x].prior[1]
                  r == call[x].inv
                  view == [id |-> x, command |-> p.cmd, args |-> p.args, kwargs |-> p.kwargs]
              IN /\ p.cmd # None /\ p.args # None /\ p.kwargs # None
                 /\ r \in Runs(x)
                 /\ Of(trace[x], r)[1] = Dispatched("command", r, view, NoExc)
                 /\ Len(Kind(trace[x], r, "callback")) = 1
                 /\ Kind(trace[x], r, "callback")[1].name = p.cmd[1]
                 /\ Kind(trace[x], r, "callback")[1].ctx = Some(view)
                 /\ Kind(trace[x], r, "callback")[1].pargs = p.args
                 /\ Kind(trace[x], r, "callback")[1].pkwargs = p.kwargs
                 /\ command[x] = p.cmd
                 /\ args[x] = p.args
                 /\ kwargs[x] = p.kwargs
                 /\ Finished(trace[x], r) <=> call[x].status # "pending"
                 /\ Finished(trace[x], r)
                    => Events(trace[x], r) \in {Succeeded, Errored, Recovered}

\* C8 witness: a reinvoke of a call with a positional and a keyword argument
\* is over.
C8_Witness ==
    \E x \in Contexts :
        /\ call[x].op = "reinvoke"
        /\ call[x].inv # 0
        /\ call[x].status = "returned"
        /\ args[x] = Some(<<1>>)
        /\ kwargs[x] = Some({<<"x", "a">>})

\* C9: on every Context, args and kwargs are present exactly when command
\* is, and when present the three are those of the most recent invoke made
\* through the Context (by invoke, or by reinvoke on its behalf).
C9_ContextInvariant ==
    \A x \in Contexts :
        /\ (command[x] = None) <=> (args[x] = None)
        /\ (command[x] = None) <=> (kwargs[x] = None)
        /\ command[x] # None
           => /\ call[x].op \in {"invoke", "reinvoke"}
              /\ call[x].cmd = command[x]
              /\ call[x].args = args[x]
              /\ call[x].kwargs = kwargs[x]

\* C9 witness: a Context after an invoke whose callback raised and a
\* reinvoke, with its three fields present.
C9_Witness ==
    \E x \in Contexts :
        /\ call[x].op = "reinvoke"
        /\ stack[x] = <<>>
        /\ Kind(trace[x], 1, "callback_raised") # <<>>
        /\ command[x] # None /\ args[x] # None /\ kwargs[x] # None

(***************************************************************************)
(* Claims about CommandSink                                                *)
(***************************************************************************)
\* dict.__getitem__ on a present key
Lookup(m, key) == m[CHOOSE i \in 1..Len(m) : m[i][1] = key][2]

\* The key a sink stores a name under
StoredKey(ci, key) == IF ci THEN casefold(key) ELSE key

\* The keys of c are distinct and none of them is in the mapping m
FreshKeys(m, ci, c) ==
    LET ks == RegisterKeys(c)
    IN /\ \A i, j \in 1..Len(ks) : i # j => StoredKey(ci, ks[i]) # StoredKey(ci, ks[j])
       /\ \A i \in 1..Len(ks) : StoredKey(ci, ks[i]) \notin Keys(m)

Occurrences(seq, v) == Cardinality({i \in 1..Len(seq) : seq[i] = v})

\* C10: registering a command with n aliases, none of whose keys is in the
\* sink yet, adds exactly n+1 keys to the mapping, all resolving to that
\* command, and walk_commands yields the command exactly once.
C10_RegisterAddsKeys ==
    (registered.cmd # None /\ FreshKeys(registered.before, case_insensitive, registered.cmd[1]))
    => LET c == registered.cmd[1]
           ks == RegisterKeys(c)
       IN /\ Len(mapping) = Len(registered.before) + Len(Aliases(c)) + 1
          /\ \A i \in 1..Len(ks) :
                /\ StoredKey(case_insensitive, ks[i]) \in Keys(mapping)
                /\ Lookup(mapping, StoredKey(case_insensitive, ks[i])) = c
          /\ Occurrences(walk_commands(mapping), c) = 1

\* C10 on case-sensitive sinks, where the assignments are dict's own
C10_CaseSensitive ==
    ~case_insensitive => C10_RegisterAddsKeys

\* A command with two aliases was registered into a case-sensitive sink that
\* held another command
C10_CaseSensitiveWitness ==
    /\ ~case_insensitive
    /\ registered.cmd = Some("c2")
    /\ registered.before # <<>>
    /\ FreshKeys(registered.before, FALSE, "c2")

\* C11: in a case-insensitive sink, get_command gives the same result for
\* any two names that are equal under case-folding; and once 'ping' with
\* alias 'p' was registered in an empty one, get_command('PING') and
\* get_command('p') both give that command and commands has length 1.
C11_CaseFoldedLookup ==
    case_insensitive
    => /\ \A k1, k2 \in LookupNames :
             casefold(k1) = casefold(k2)
             => get_command(mapping, TRUE, k1, "None").result
                  = get_command(mapping, TRUE, k2, "None").result
       /\ (registered.cmd = Some("c1") /\ registered.before = <<>>)
          => /\ get_command(mapping, TRUE, <<"P", "I", "N", "G">>, "None").result = "c1"
             /\ get_command(mapping, TRUE, <<"p">>, "None").result = "c1"
             /\ Len(commands(mapping)) = 1

\* The first half of C11 alone: names equal under case-folding are looked
\* up alike
C11_FoldedNamesAgree ==
    case_insensitive
    => \A k1, k2 \in LookupNames :
          casefold(k1) = casefold(k2)
          => get_command(mapping, TRUE, k1, "None").result
               = get_command(mapping, TRUE, k2, "None").result

\* C13: get_command(name, default) returns the command stored under the
\* name (folded in a case-insensitive sink) when there is one and default
\* when there is none, raises nothing, and leaves the mapping as it was.
C13_GetCommandPure ==
    got.op = "get_command"
    => /\ got.exc = NoExc
       /\ got.after = got.before
       /\ got.result =
            IF StoredKey(case_insensitive, got.key) \in Keys(got.before)
            THEN Lookup(got.before, StoredKey(case_insensitive, got.key))
            ELSE got.default

\* C13 witness: a lookup by an alias found its command in a sink that holds
\* several, and the mapping was not empty.
C13_Witness ==
    /\ got.op = "get_command"
    /\ got.key = <<"P">>
    /\ got.result = "c2"
    /\ Len(got.before) >= 4

\* A lookup of a name that is not registered returned the default given
C13_DefaultWitness ==
    /\ got.op = "get_command"
    /\ got.before # <<>>
    /\ got.key = <<"o">>
    /\ got.result = "dflt"

(***************************************************************************)
(* CaseInsensitiveDict on its own: a map made by the inherited dict        *)
(* constructor, which stores the keys it is given as they are, then read,  *)
(* written and deleted through the overridden methods (core.py:23-45)      *)
(***************************************************************************)
MapKeys == {<<"p", "i", "n", "g">>, <<"P", "I", "N", "G">>, <<"P", "i", "n", "g">>,
            <<"p">>, <<"P">>, <<"o">>}

\* The keys given to the inherited methods
UnfoldedKeys == {<<"P", "i", "n", "g">>, <<"p">>}

\* What the constructor of the dict is given
InitialDicts ==
    { <<>>,
      << <<<<"P", "i", "n", "g">>, "c1">> >>,
      << <<<<"p", "i", "n", "g">>, "c1">>, <<<<"p">>, "c1">> >>,
      << <<<<"p", "i", "n", "g">>, "c1">>, <<<<"p", "o", "n", "g">>, "c2">>, <<<<"p">>, "c2">> >> }

\* CaseInsensitiveDict(items), once the class exists: dict.__init__ stores
\* the items under the keys as given                               (core.py:23)
MapInit(items) ==
    /\ core = "loaded"
    /\ core' = "constructed"
    /\ case_insensitive' = TRUE
    /\ mapping' = items
    /\ UNCHANGED <<registered, got>>
    /\ UNCHANGED invVars
    /\ UNCHANGED auxVars

Did(op, key, default, r) ==
    /\ core = "constructed"
    /\ mapping' = r.mapping
    /\ got' = [op |-> op, key |-> key, default |-> default, result |-> r.result,
               exc |-> r.exc, before |-> mapping, after |-> r.mapping]
    /\ UNCHANGED <<core, case_insensitive, registered>>
    /\ UNCHANGED invVars
    /\ UNCHANGED auxVars

\* d[key] = value
MapSetItem(key, value) ==
    LET r == CaseInsensitiveSetItem(mapping, key, value)
    IN Did("setitem", key, value, [result |-> "None", exc |-> r.exc, mapping |-> r.mapping])

\* d[key]
MapGetItem(key) == Did("getitem", key, "None", CaseInsensitiveGetItem(mapping, key))

\* del d[key]
MapDelItem(key) == Did("delitem", key, "None", CaseInsensitiveDelItem(mapping, key))

\* key in d
MapContains(key) == Did("contains", key, "None", CaseInsensitiveContains(mapping, key))

\* d.get(key, default)
MapGet(key, default) ==
    Did("get", key, default,
        [result |-> CaseInsensitiveGet(mapping, key, default), exc |-> NoExc,
         mapping |-> mapping])

\* d.pop(key, default)
MapPop(key, default) == Did("pop", key, default, CaseInsensitivePop(mapping, key, default))

\* The methods CaseInsensitiveDict inherits from dict without overriding
\* them work on the keys as given: they do not go through __setitem__ and
\* do not fold.                                                 (core.py:23)
\* d.update({key: value})
MapUpdate(key, value) ==
    Did("update", key, value,
        [result |-> "None", exc |-> NoExc, mapping |-> DictSetItem(mapping, key, value)])

\* d |= {key: value}
MapIor(key, value) ==
    Did("ior", key, value,
        [result |-> "None", exc |-> NoExc, mapping |-> DictSetItem(mapping, key, value)])

\* d.setdefault(key, default)
MapSetDefault(key, default) ==
    Did("setdefault", key, default,
        IF key \in Keys(mapping)
        THEN [result |-> ValueAt(mapping, key), exc |-> NoExc, mapping |-> mapping]
        ELSE [result |-> default, exc |-> NoExc, mapping |-> Append(mapping, <<key, default>>)])

\* d.popitem(): removes the item added last and returns it as the pair
\* (key, value), the key as it is stored
MapPopItem ==
    Did("popitem", <<>>, "None",
        IF mapping = <<>>
        THEN [result |-> "None", exc |-> "KeyError", mapping |-> mapping]
        ELSE [result |-> mapping[Len(mapping)], exc |-> NoExc,
              mapping |-> SubSeq(mapping, 1, Len(mapping) - 1)])

\* d.clear()
MapClear == Did("clear", <<>>, "None", [result |-> "None", exc |-> NoExc, mapping |-> <<>>])

\* Before the import of commands.core: there is no dict yet
InitDict ==
    /\ InitInvocation
    /\ core = "unloaded"
    /\ mapping = <<>>
    /\ case_insensitive = FALSE
    /\ registered = NotRegistered
    /\ got = NotGot
    /\ rendered = NotRendered

NextDict ==
    \/ \E typevars \in BOOLEAN : ImportCore(typevars)
    \/ \E items \in InitialDicts : MapInit(items)
    \/ \E key \in UnfoldedKeys, value \in {"c3"} : MapUpdate(key, value)
    \/ \E key \in UnfoldedKeys, value \in {"c4"} : MapIor(key, value)
    \/ \E key \in UnfoldedKeys, default \in {"c3"} : MapSetDefault(key, default)
    \/ MapPopItem
    \/ MapClear
    \/ \E key \in MapKeys, value \in Commands : MapSetItem(key, value)
    \/ \E key \in MapKeys : MapGetItem(key)
    \/ \E key \in MapKeys : MapDelItem(key)
    \/ \E key \in MapKeys : MapContains(key)
    \/ \E key \in MapKeys, default \in Defaults : MapGet(key, default)
    \/ \E key \in MapKeys, default \in Defaults : MapPop(key, default)

DictSpec == InitDict /\ [][NextDict]_vars

\* C12: a write d[key] = value succeeds and leaves one entry for the folded
\* key, holding value (the last write wins); after it every key equal to key
\* under case-folding reads that value, by d[k], k in d, d.get(k) and
\* d.pop(k).
C12_CaseFoldingMap ==
    got.op = "setitem"
    => /\ got.exc = NoExc
       /\ Cardinality({i \in 1..Len(got.after) : got.after[i][1] = casefold(got.key)}) = 1
       /\ \A k \in MapKeys :
             casefold(k) = casefold(got.key)
             => /\ CaseInsensitiveGetItem(got.after, k).result = got.default
                /\ CaseInsensitiveContains(got.after, k).result = "True"
                /\ CaseInsensitiveGet(got.after, k, "None") = got.default
                /\ CaseInsensitivePop(got.after, k, "None").result = got.default

\* The readers and removers of C12 alone: d[k], del d[k], k in d, d.get and
\* d.pop address the entry under the folded key, so two keys equal under
\* case-folding address the same one
C12_ReadsFold ==
    LET k == casefold(got.key)
        has == k \in Keys(got.before)
    IN /\ got.op = "getitem"
          => /\ got.after = got.before
             /\ IF has THEN got.exc = NoExc /\ got.result = Lookup(got.before, k)
                       ELSE got.exc = "KeyError"
       /\ got.op = "contains"
          => got.after = got.before /\ got.result = (IF has THEN "True" ELSE "False")
       /\ got.op = "get"
          => /\ got.after = got.before
             /\ got.result = (IF has THEN Lookup(got.before, k) ELSE got.default)
       /\ got.op = "pop"
          => /\ got.result = (IF has THEN Lookup(got.before, k) ELSE got.default)
             /\ k \notin Keys(got.after)
             /\ Len(got.after) = Len(got.before) - (IF has THEN 1 ELSE 0)
       /\ got.op = "delitem"
          => IF has THEN got.exc = NoExc /\ k \notin Keys(got.after)
                    ELSE got.exc = "KeyError" /\ got.after = got.before

(***************************************************************************)
(* Command.error called again and again: ErrorSpec records the calls made  *)
(* on each Command, up to MaxRegistrations of them                         *)
(***************************************************************************)
\* A call command.error(func)
RegisterError(c, func) ==
    /\ Len(registrations[c]) < MaxRegistrations
    /\ CommandError(c, func)
    /\ registrations' = [registrations EXCEPT ![c] = Append(@, func)]

NextError ==
    \/ \E c \in InvokedCommands, func \in ErrHandlers : RegisterError(c, func)
    \/ \E x \in MainContexts, c \in InvokedCommands :
          stack[x] = <<>> /\ Invoke(x, 0, c, <<>>, {})
    \/ \E x \in MainContexts, i \in 1..MaxRuns : CallbackReturns(x, i)
    \/ \E x \in MainContexts, i \in 1..MaxRuns, exc \in Raisable : CallbackRaises(x, i, exc)
    \/ \E x \in MainContexts, i \in 1..MaxRuns : ErrorCallbackReturns(x, i)
    \/ \E x \in MainContexts, i \in 1..MaxRuns, new_exc \in Raisable :
          ErrorCallbackRaises(x, i, new_exc)

ErrorSpec == Init /\ [][NextError]_vars

\* The callback of run i on x raises in this step
RaisesNow(x, i) ==
    /\ Kind(trace[x], i, "callback_raised") = <<>>
    /\ Kind(trace'[x], i, "callback_raised") # <<>>

\* C14: every call of Command.error takes effect without raising, and in
\* the step in which a callback fails (raises an Exception), the error
\* callback that is called is the one of the last Command.error call made on
\* that command so far, once, and no other; with no call made so far, none is
\* called.
C14_LastRegistrationWins ==
    [][ /\ \A c \in Commands :
             registrations'[c] # registrations[c]
             => error_callback'[c] = registrations'[c][Len(registrations'[c])]
        /\ \A x \in Contexts : \A i \in Open(x) :
             (/\ RaisesNow(x, i)
              /\ IsException(Kind(trace'[x], i, "callback_raised")[1].exc))
             => LET regs == registrations[Frame(x, i).cmd]
                    calls == Kind(trace'[x], i, "error_callback")
                IN IF regs = <<>>
                   THEN calls = <<>>
                   ELSE /\ Len(calls) = 1
                        /\ calls[1].name = regs[Len(regs)]
                        /\ \A j \in 1..(Len(regs) - 1) :
                              regs[j] # regs[Len(regs)] => calls[1].name # regs[j]
      ]_vars

\* C14 witness: error(h1) then error(h2) were called on a command, its
\* callback raised, and h2 is the error callback running.
C14_Witness ==
    \E x \in Contexts :
        /\ Suspended(x, 1, "error_callback")
        /\ registrations[Frame(x, 1).cmd] = <<"h1", "h2">>
        /\ Kind(trace[x], 1, "callback_raised")[1].name = "h2"
        /\ Kind(trace[x], 1, "error_callback")[1].name = "h2"

(***************************************************************************)
(* Invocations in flight on several Contexts at once: ConcurrentSpec       *)
(* interleaves, step by step, the calls made through every Context of      *)
(* Contexts.  Each callback and error callback is suspended between the    *)
(* step that calls it and the step in which it returns or raises.          *)
(***************************************************************************)
NextConcurrent ==
    \/ \E c \in InvokedCommands :
          CommandError(c, "h1") /\ UNCHANGED registrations
    \/ \E x \in Contexts, c \in InvokedCommands, a \in ArgTuples :
          stack[x] = <<>> /\ Invoke(x, 0, c, a, {})
    \/ \E x \in Contexts, exc \in {"E1", "B1"} : CallbackRaises(x, 1, exc)
    \/ \E x \in Contexts : CallbackReturns(x, 1)
    \/ \E x \in Contexts : ErrorCallbackReturns(x, 1)
    \/ \E x \in Contexts, new_exc \in {"E2", "B1"} : ErrorCallbackRaises(x, 1, new_exc)

ConcurrentSpec == Init /\ [][NextConcurrent]_vars

\* What a record of a call says happened, in order; for the way
\* Command.invoke was left, returned or raised
Labels(tr) ==
    [j \in 1..Len(tr) |-> IF tr[j].kind \in {"dispatch", "left"} THEN tr[j].name
                                                                ELSE tr[j].kind]

\* The ways through Command.invoke: the four on which every failure is an
\* Exception, and the two on which the callback, or the error callback,
\* raised what "except Exception" does not catch               (models.py:96-112)
Paths ==
    { <<"command", "callback", "callback_returned",
        "command_success", "command_complete", "returned">>,
      <<"command", "callback", "callback_raised",
        "command_error", "command_complete", "returned">>,
      <<"command", "callback", "callback_raised", "error_callback",
        "error_callback_returned", "command_complete", "returned">>,
      <<"command", "callback", "callback_raised", "error_callback",
        "error_callback_raised", "command_error", "command_complete", "returned">>,
      <<"command", "callback", "callback_raised",
        "command_complete", "raised">>,
      <<"command", "callback", "callback_raised", "error_callback",
        "error_callback_raised", "command_complete", "raised">> }

IsPrefix(s, t) == Len(s) <= Len(t) /\ s = SubSeq(t, 1, Len(s))

\* C15: whatever the other Contexts are doing, what is recorded for the
\* invocation made through a Context is a beginning of one of the sequential
\* ways through Command.invoke (the whole of it once the invocation is
\* over), every payload and every callback call in it carries this Context
\* with the command and arguments of its own invocation, and the Context's
\* command, args and kwargs are those of its own invocation.
C15_Isolation ==
    \A x \in Contexts :
        call[x].op = "invoke"
        => /\ command[x] = call[x].cmd
           /\ args[x] = call[x].args
           /\ kwargs[x] = call[x].kwargs
           /\ \E p \in Paths : IsPrefix(Labels(trace[x]), p)
           /\ (stack[x] = <<>>) <=> (Labels(trace[x]) \in Paths)
           /\ \A j \in 1..Len(trace[x]) :
                LET e == trace[x][j]
                IN /\ e.inv = 1
                   /\ e.ctx # None
                      => e.ctx = Some([id |-> x, command |-> call[x].cmd,
                                       args |-> call[x].args, kwargs |-> call[x].kwargs])
                   /\ e.kind = "callback"
                      => /\ Some(e.name) = call[x].cmd
                         /\ e.pargs = call[x].args
                         /\ e.pkwargs = call[x].kwargs

\* C15 witness: two invocations of different commands with different
\* arguments are in flight, one suspended in its error callback and the
\* other, begun after the first one's callback had raised, in its callback.
C15_Witness ==
    /\ Suspended("x1", 1, "error_callback") /\ Suspended("x2", 1, "callback")
    /\ command["x1"] = Some("c1") /\ command["x2"] = Some("c2")
    /\ args["x1"] = Some(<<1>>) /\ args["x2"] = Some(<<2>>)

\* C15 witness: one invocation ran from start to end while another stayed
\* suspended in its callback.
C15_OvertakenWitness ==
    /\ stack["x1"] # <<>> /\ Len(trace["x1"]) = 2
    /\ stack["x2"] = <<>> /\ call["x2"].status = "returned"
    /\ call["x1"].cmd # call["x2"].cmd

(***************************************************************************)
(* to_error_string (utils.py:50-60).  A string is a sequence of            *)
(* characters; an exception is its class name and its args, none or one    *)
(* string of up to MaxText characters.                                     *)
(***************************************************************************)
Whitespace == {" ", "\n"}
TextChars == {"b", "a", "d"} \cup Whitespace
Texts == UNION {[1..n -> TextChars] : n \in 0..MaxText}

ValueError == <<"V", "a", "l", "u", "e", "E", "r", "r", "o", "r">>
TypeError == <<"T", "y", "p", "e", "E", "r", "r", "o", "r">>
ClassNames == {ValueError, TypeError}

Exceptions == [cls : ClassNames, args : {<<>>} \cup {<<t>> : t \in Texts}]

\* str(exc): BaseException.__str__ is '' without args and str(args[0]) with one
Str(exc) == IF exc.args = <<>> THEN <<>> ELSE exc.args[1]

RECURSIVE lstrip(_)
lstrip(s) == IF s # <<>> /\ s[1] \in Whitespace THEN lstrip(Tail(s)) ELSE s

RECURSIVE rstrip(_)
rstrip(s) ==
    IF s # <<>> /\ s[Len(s)] \in Whitespace THEN rstrip(SubSeq(s, 1, Len(s) - 1)) ELSE s

\* str.strip()
strip(s) == rstrip(lstrip(s))

\* Mutant: the text is tested without strip(), "if str(exc):"
to_error_string_NoStrip(exc) ==
    IF Str(exc) # <<>>
    THEN exc.cls \o <<":", " ">> \o Str(exc)
    ELSE exc.cls

\* if str(exc).strip(): return '{0.__class__.__name__}: {0}'.format(exc)
\* else: return exc.__class__.__name__                       (utils.py:57-60)
to_error_string(exc) ==
    IF strip(Str(exc)) # <<>>
    THEN exc.cls \o <<":", " ">> \o Str(exc)
    ELSE exc.cls

\* to_error_string(exc) on the exception drawn in InitRender
Render ==
    /\ rendered.exc # None /\ rendered.out = None
    /\ rendered' = [rendered EXCEPT !.out = Some(to_error_string(rendered.exc[1]))]
    /\ UNCHANGED invVars
    /\ UNCHANGED sinkVars
    /\ UNCHANGED registrations

\* The exceptions the callback of RenderSpec raises
Raised(exc) ==
    IF exc = "E1" THEN [cls |-> ValueError, args |-> << <<"b", "a", "d">> >>]
    ELSE [cls |-> TypeError, args |-> <<>>]

\* to_error_string on the exception that went with 'command_error'
RenderPayload(x) ==
    /\ stack[x] = <<>>
    /\ Event(trace[x], 1, "command_error") # <<>>
    /\ LET exc == Raised(Event(trace[x], 1, "command_error")[1].exc)
       IN rendered' = [exc |-> Some(exc), out |-> Some(to_error_string(exc))]
    /\ UNCHANGED invVars
    /\ UNCHANGED sinkVars
    /\ UNCHANGED registrations

InitRender ==
    /\ InitInvocation
    /\ core = "unloaded"
    /\ mapping = <<>>
    /\ case_insensitive = FALSE
    /\ registered = NotRegistered
    /\ got = NotGot
    /\ rendered \in {[exc |-> Some(exc), out |-> None] : exc \in Exceptions}

NextRender ==
    \/ Render
    \/ stack["x1"] = <<>> /\ Invoke("x1", 0, "c1", <<>>, {})
    \/ \E exc \in Errors : CallbackRaises("x1", 1, exc)
    \/ RenderPayload("x1")

RenderSpec == InitRender /\ [][NextRender]_vars

BadRendered ==
    <<"V", "a", "l", "u", "e", "E", "r", "r", "o", "r", ":", " ", "b", "a", "d">>

\* C16: what to_error_string makes of an error is the class name, ': ' and
\* the error text when the text has a character that is not whitespace, and
\* the class name alone when the text is empty or all whitespace;
\* ValueError('bad') gives 'ValueError: bad'.
C16_Rendering ==
    rendered.out # None
    => LET exc == rendered.exc[1]
           text == Str(exc)
           out == rendered.out[1]
       IN /\ IF \E i \in 1..Len(text) : text[i] \notin Whitespace
             THEN /\ Len(out) = Len(exc.cls) + 2 + Len(text)
                  /\ SubSeq(out, 1, Len(exc.cls)) = exc.cls
                  /\ out[Len(exc.cls) + 1] = ":" /\ out[Len(exc.cls) + 2] = " "
                  /\ SubSeq(out, Len(exc.cls) + 3, Len(out)) = text
             ELSE out = exc.cls
          /\ (exc.cls = ValueError /\ exc.args = << <<"b", "a", "d">> >>)
             => out = BadRendered

\* C16 witness: a callback raised ValueError('bad') with no error callback
\* attached, 'command_error' was dispatched with it, and it was rendered.
C16_Witness ==
    /\ stack["x1"] = <<>>
    /\ Kind(trace["x1"], 1, "error_callback") = <<>>
    /\ Event(trace["x1"], 1, "command_error") # <<>>
    /\ Raised(Event(trace["x1"], 1, "command_error")[1].exc) = rendered.exc[1]
    /\ rendered.out = Some(BadRendered)

\* C16 witness: an error whose text is whitespace only was rendered as its
\* class name.
C16_BlankWitness ==
    /\ rendered.out = Some(TypeError)
    /\ rendered.exc[1].args = << <<" ", "\n">> >>

(***************************************************************************)
(* Claims about walk_commands and commands                                 *)
(***************************************************************************)
\* The values of a mapping, and where a value first occurs in its key order
Values(m) == {m[i][2] : i \in 1..Len(m)}
FirstAt(m, v) == CHOOSE i \in 1..Len(m) : m[i][2] = v /\ \A j \in 1..(i - 1) : m[j][2] # v

\* C17: in every mapping the sink gets to, walk_commands yields each
\* Command among the mapping's values once, nothing else, in the order in
\* which the Commands first occur in the mapping's key order; commands is
\* that sequence as a list.
C17_WalkCommands ==
    LET w == walk_commands(mapping)
    IN /\ \A i, j \in 1..Len(w) : i # j => w[i] # w[j]
       /\ {w[i] : i \in 1..Len(w)} = Values(mapping)
       /\ \A i, j \in 1..Len(w) : i < j => FirstAt(mapping, w[i]) < FirstAt(mapping, w[j])
       /\ commands(mapping) = w

\* C17 witness: the mapping holds two Commands, one of them under three
\* keys, one of which belonged to the other Command before the last
\* registration, and the walk yields the two.
C17_Witness ==
    /\ registered.exc = NoExc
    /\ Len(mapping) = 4
    /\ \E i \in 1..Len(registered.before) :
          /\ registered.before[i][1] = mapping[i][1]
          /\ registered.before[i][2] # mapping[i][2]
    /\ \E v \in Values(mapping) : Occurrences([i \in 1..Len(mapping) |-> mapping[i][2]], v) = 3
    /\ Len(walk_commands(mapping)) = 2

(***************************************************************************)
(* One Context used by several tasks: in SharedSpec each task of Tasks     *)
(* makes a call on x1 whenever it is not awaiting one, so that a call      *)
(* begins while runs of Command.invoke are open on the Context, and the    *)
(* runs end in any order.  A record has at most MaxRuns runs.              *)
(***************************************************************************)
Tasks == {"t1", "t2"}

\* The calls made in SharedSpec: command, positional and keyword arguments
Calls == {<<"c1", <<1>>, {<<"x", "a">>}>>, <<"c2", <<2>>, {}>>}

\* A task is free to make a call on x
TaskFree(x) == Len(stack[x]) < Cardinality(Tasks)

NextShared ==
    \/ CommandError("c1", "h1") /\ UNCHANGED registrations
    \/ \E n \in Calls : TaskFree("x1") /\ Invoke("x1", 0, n[1], n[2], n[3])
    \/ TaskFree("x1") /\ Reinvoke("x1", 0)
    \/ TaskFree("x1") /\ DirectInvoke("x1", 0, "c1", <<2>>, {})
    \/ \E i \in 1..MaxRuns : CallbackReturns("x1", i)
    \/ \E i \in 1..MaxRuns, exc \in {"E1", "B1"} : CallbackRaises("x1", i, exc)
    \/ \E i \in 1..MaxRuns : ErrorCallbackReturns("x1", i)
    \/ \E i \in 1..MaxRuns : ErrorCallbackRaises("x1", i, "E2")

SharedSpec == Init /\ [][NextShared]_vars

(***************************************************************************)
(* Claims about the order of Context.invoke's assignments and delegation   *)
(***************************************************************************)
\* C18: the run of Command.invoke that the latest Context.invoke call on a
\* Context began has, as the first thing recorded, the 'command' dispatch,
\* and it and the call of the callback carry the Context with the command,
\* args and kwargs of this very call, the callback called is that command's,
\* and for as long as the callback runs the Context holds these three values.
C18_RecordedBeforeDelegation ==
    \A x \in Contexts :
        call[x].inv # 0
        => LET r == call[x].inv
               mine == [id |-> x, command |-> call[x].cmd,
                        args |-> call[x].args, kwargs |-> call[x].kwargs]
           IN /\ call[x].cmd # None /\ call[x].args # None /\ call[x].kwargs # None
              /\ r \in Runs(x)
              /\ Of(trace[x], r)[1] = Dispatched("command", r, mine, NoExc)
              /\ Len(Kind(trace[x], r, "callback")) = 1
              /\ Kind(trace[x], r, "callback")[1].ctx = Some(mine)
              /\ Some(Kind(trace[x], r, "callback")[1].name) = call[x].cmd
              /\ Kind(trace[x], r, "callback")[1].pargs = call[x].args
              /\ Kind(trace[x], r, "callback")[1].pkwargs = call[x].kwargs
              /\ (r \in Open(x) /\ Frame(x, r).pc = "callback") => CtxView(x) = mine

\* C18 witness: the callback of c2 is running, called through invoke with a
\* positional argument, while an earlier run is still open on the Context.
C18_Witness ==
    \E x \in Contexts :
        /\ call[x].op = "invoke"
        /\ call[x].inv = 2
        /\ Suspended(x, 2, "callback")
        /\ 1 \in Open(x)
        /\ Frame(x, 2).cmd = "c2"
        /\ Kind(trace[x], 2, "callback")[1].ctx
             = Some([id |-> x, command |-> Some("c2"),
                     args |-> Some(<<2>>), kwargs |-> Some({})])

(***************************************************************************)
(* Claims about reinvoke on a Context never invoked through                *)
(***************************************************************************)
\* C19: a reinvoke on a Context whose command, args and kwargs are absent
\* ends with an error raised to the caller: nothing is called or dispatched,
\* no run of Command.invoke begins, and the three fields stay absent.
C19_ReinvokeFresh ==
    [][ \A x \in Contexts :
          (/\ call'[x] # call[x]
           /\ call'[x].op = "reinvoke"
           /\ command[x] = None /\ args[x] = None /\ kwargs[x] = None)
          => /\ call'[x].status = "raised"
             /\ call'[x].exc \notin {NoExc} \cup Raisable
             /\ call'[x].inv = 0
             /\ trace'[x] = trace[x]
             /\ stack'[x] = stack[x]
             /\ command'[x] = None /\ args'[x] = None /\ kwargs'[x] = None
      ]_vars

\* C19 witness: reinvoke was called on a fresh Context and raised TypeError.
C19_Witness ==
    \E x \in Contexts :
        /\ call[x].op = "reinvoke"
        /\ call[x].status = "raised"
        /\ call[x].exc = "TypeError"
        /\ command[x] = None

(***************************************************************************)
(* Re-entrant use of a Context: in NestedSpec every call made while a run  *)
(* is open on the Context is made by a running callback or error callback, *)
(* which awaits it, up to MaxRuns runs of Command.invoke in one top-level  *)
(* call.                                                                   *)
(***************************************************************************)
\* The command and positional arguments of the calls made in NestedSpec
NestedCalls == {<<"c1", <<1>>>>, <<"c2", <<2>>>>}

NextNested ==
    \/ \E c \in InvokedCommands : CommandError(c, "h1") /\ UNCHANGED registrations
    \/ \E by \in 0..MaxRuns, n \in NestedCalls :
          (by = 0 <=> stack["x1"] = <<>>) /\ Invoke("x1", by, n[1], n[2], {})
    \/ \E by \in 0..MaxRuns :
          (by = 0 <=> stack["x1"] = <<>>) /\ Reinvoke("x1", by)
    \/ \E i \in 1..MaxRuns : CallbackReturns("x1", i)
    \/ \E i \in 1..MaxRuns, exc \in {"E1", "B1"} : CallbackRaises("x1", i, exc)
    \/ \E i \in 1..MaxRuns : ErrorCallbackReturns("x1", i)
    \/ \E i \in 1..MaxRuns : ErrorCallbackRaises("x1", i, "E2")

NestedSpec == Init /\ [][NextNested]_vars

\* The run whose callback (or error callback) began run j, 0 when run j was
\* begun from outside the runs on the Context
Outer(tr, j) == tr[CallOf(tr, j)].by

\* Run j was begun by the callback (or error callback) of run i
Within(tr, i, j) == Outer(tr, j) = i

\* The runs in a record are nested, and the Context holds the arguments of
\* the run begun last
Nested(x, tr, cmd, a, k) ==
    /\ \A j \in 1..Begun(tr) :
          LET i == Outer(tr, j)
          IN i # 0
             => /\ CallOf(tr, i) < FirstOf(tr, j)
                /\ \A l \in Places(tr, i) :
                      FirstOf(tr, j) < l
                      => /\ Finished(tr, j)
                         /\ LastOf(tr, j) < l
                         /\ Events(tr, j) \in {Succeeded, Errored, Recovered}
    /\ Begun(tr) >= 1
       => LET last == tr[CallOf(tr, Begun(tr))]
          IN /\ cmd = Some(last.name)
             /\ a = last.pargs
             /\ k = last.pkwargs

\* C20: in a call in which callbacks call invoke on their own Context, a
\* run begun by the callback of another run begins after that callback was
\* called, and is over, with its full lifecycle dispatched, before anything
\* else is recorded for the outer run: that callback's outcome and the
\* 'command_success', 'command_error' and 'command_complete' of the outer
\* run; the Context stores the command and arguments of the run begun last,
\* during and after the call; and a reinvoke that follows calls the callback
\* of that run's command with that run's arguments.
C20_Reentrant ==
    [][ \A x \in Contexts :
          /\ Nested(x, trace'[x], command'[x], args'[x], kwargs'[x])
          /\ (stack[x] = <<>> /\ Begun(trace[x]) >= 1
              /\ call'[x].op = "reinvoke" /\ call'[x].status = "pending")
             => LET last == trace[x][CallOf(trace[x], Begun(trace[x]))]
                    again == trace'[x][2]
                IN /\ Begun(trace'[x]) = 1
                   /\ again.kind = "callback"
                   /\ again.name = last.name
                   /\ again.pargs = last.pargs
                   /\ again.pkwargs = last.pkwargs
      ]_vars

\* C20 witness: invoke(c1, 1) is over; its callback had called invoke(c2, 2)
\* on the same Context, and the Context stores c2 with 2.
C20_Witness ==
    \E x \in Contexts :
        /\ stack[x] = <<>>
        /\ Begun(trace[x]) = 2
        /\ Within(trace[x], 1, 2)
        /\ trace[x][CallOf(trace[x], 1)].name = "c1"
        /\ trace[x][CallOf(trace[x], 1)].pargs = Some(<<1>>)
        /\ Kind(trace[x], 1, "callback_returned") # <<>>
        /\ command[x] = Some("c2") /\ args[x] = Some(<<2>>)

\* C20 witness: a reinvoke made from outside, after a call whose callback
\* had invoked c2 with 2 on the Context, runs the callback of c2 with 2.
C20_ReinvokeWitness ==
    \E x \in Contexts :
        /\ call[x].op = "reinvoke"
        /\ call[x].by = 0
        /\ call[x].prior # None
        /\ call[x].prior[1].by # 0
        /\ call[x].prior[1].cmd = Some("c2")
        /\ call[x].inv = 1
        /\ Len(trace[x]) >= 2
        /\ trace[x][2].kind = "callback"
        /\ trace[x][2].name = "c2"
        /\ trace[x][2].pargs = Some(<<2>>)

====
